---- MODULE Spec2Model ----
(***************************************************************************)
(* The config open-api of r-nacos (src/openapi/config/api.rs): the four    *)
(* handlers get_config, add_config, del_config and listener_config, run as *)
(* concurrent requests against the config actor (store + long-poll         *)
(* listener registry) and the cluster write router.                        *)
(*                                                                         *)
(* Strings are sequences of tokens: a token is either a run of characters  *)
(* the url-encoder leaves alone or a single control character.  Option<T>  *)
(* is a sequence of length at most one.                                    *)
(***************************************************************************)
EXTENDS Integers, Sequences, FiniteSets, TLC

\* ------------------------------------------------------------------ bounds
MaxSlots == 2          \* requests in flight at the same time

Slots == 1..MaxSlots

\* ---------------------------------------------------------------- options
None == <<>>
Some(x) == <<x>>
IsSome(o) == Len(o) = 1
Unwrap(o) == o[1]
UnwrapOr(o, d) == IF IsSome(o) THEN o[1] ELSE d

\* ------------------------------------------------------- program constants
MinTimeout == 10000
MaxTimeout == 120000
TimeoutMargin == 500
DefaultGroup == "DEFAULT_GROUP"

\* std::cmp::{min, max}
min(a, b) == IF a <= b THEN a ELSE b
max(a, b) == IF a >= b THEN a ELSE b

\* ------------------------------------------------------------ input domains
DataIdOpts == {None, Some(""), Some("a")}
GroupOpts == {None}
TenantOpts == {None, Some(""), Some("public"), Some("bad!")}
ContentOpts == {None, Some("v1"), Some("v2")}
InvalidTenants == {"bad!"}

WebParams == [data_id : DataIdOpts, group : GroupOpts,
              tenant : TenantOpts, content : ContentOpts]
\* Slot 1 draws its requests from the whole input domains; the other slots
\* are the traffic it runs against: slot 2 publishes, deletes and watches the
\* key "a" with well-formed requests, any further slot publishes it.
QueryParams(i) ==
    IF i = 1 THEN WebParams
    ELSE {p \in WebParams :
            (p.data_id = Some("a")) /\ (p.tenant = None) /\ (p.content # None)
            /\ ((i > 2) => (p.content = Some("v2")))}
GetParams(i) == IF i = 1 THEN {p \in WebParams : p.content = None} ELSE {}
DelParams(i) ==
    IF i > 2 THEN {} ELSE {[p EXCEPT !.content = None] : p \in QueryParams(i)}
EmptyParams == [data_id |-> None, group |-> None, tenant |-> None, content |-> None]

\* The slots whose requests meet a transport fault, a closed mailbox or a
\* rejected proposal.
FaultySlots == {1}

\* What get_req_body + serde_urlencoded::from_bytes give: a transport error,
\* a decode error, or the decoded form.
BodyKinds(i) == IF i \in FaultySlots THEN {"read_err", "decode_err", "ok"} ELSE {"ok"}

\* ------------------------------------------------------------- ConfigKey
ConfigKey(d, g, t) == [data_id |-> d, group |-> g, tenant |-> t]
NoKey == ConfigKey("", "", "")

\* Fingerprint of a content (the actor's md5): deterministic, one per content.
Md5(c) == CASE c = "v1" -> "F1"
            [] c = "v2" -> "F2"
            [] OTHER -> "F0"

\* ------------------------------------------ ConfigWebParams (lines 35-77)
SelectOptionByClone(a, b) == IF IsSome(a) THEN a ELSE b

\* The body taken first, the query only where the body has nothing.
SelectOptionBodyFirst(a, o) ==
    [data_id |-> SelectOptionByClone(o.data_id, a.data_id),
     group   |-> SelectOptionByClone(o.group, a.group),
     tenant  |-> SelectOptionByClone(o.tenant, a.tenant),
     content |-> SelectOptionByClone(o.content, a.content)]

SelectOption(a, o) ==
    [data_id |-> SelectOptionByClone(a.data_id, o.data_id),
     group   |-> SelectOptionByClone(a.group, o.group),
     tenant  |-> SelectOptionByClone(a.tenant, o.tenant),
     content |-> SelectOptionByClone(a.content, o.content)]

Ok(v) == [ok |-> TRUE, err |-> "", val |-> v]
Err(e) == [ok |-> FALSE, err |-> e, val |-> [data_id |-> "", group |-> "", tenant |-> "", content |-> ""]]

\* The tenant taken as given: "public" kept.
ToConfirmedParamRaw(p) ==
    IF IsSome(p.data_id) /\ Unwrap(p.data_id) = ""
    THEN Err("dataId is empty")
    ELSE Ok([data_id |-> UnwrapOr(p.data_id, ""),
             group   |-> UnwrapOr(p.group, DefaultGroup),
             tenant  |-> UnwrapOr(p.tenant, ""),
             content |-> UnwrapOr(p.content, "")])

ToConfirmedParam(p) ==
    IF IsSome(p.data_id) /\ Unwrap(p.data_id) = ""
    THEN Err("dataId is empty")
    ELSE Ok([data_id |-> UnwrapOr(p.data_id, ""),
             group   |-> UnwrapOr(p.group, DefaultGroup),
             tenant  |-> LET t == UnwrapOr(p.tenant, "")
                         IN IF t = "public" THEN "" ELSE t,
             content |-> UnwrapOr(p.content, "")])

\* param_utils::check_tenant / check_param: the parameter syntax rules.
CheckTenant(tenant) ==
    IF IsSome(tenant) /\ Unwrap(tenant) \in InvalidTenants
    THEN Err("invalid tenant") ELSE Ok(Err("").val)

CheckParam(data_id, group, datum_id, content) ==
    IF ~IsSome(data_id) \/ Unwrap(data_id) = "" THEN Err("invalid dataId")
    ELSE IF ~IsSome(datum_id) \/ Unwrap(datum_id) = "" THEN Err("invalid datumId")
    ELSE IF ~IsSome(content) \/ Unwrap(content) = "" THEN Err("content is blank")
    ELSE Ok(Err("").val)

\* -------------------------------------------------------------- responses
Response(status, body, md5) == [status |-> status, body |-> body, md5 |-> md5]
NoResponse == Response(0, <<>>, "")
InternalServerError(msg) == Response(500, <<msg>>, "")
OkTrue == Response(200, <<"true">>, "")


\* ------------------------------------------- listener wire format (4.2)
Sep1 == "<01>"      \* the record separator, byte 0x01
Sep2 == "<02>"      \* the field separator, byte 0x02
KnownMd5 == {"", "F1", "F2"}

ListenerItem(key, md5) == [key |-> key, md5 |-> md5]

\* A submitted Listening-Configs value, already split at its separators: a
\* sequence of records, each a sequence of fields.
WellFormed(r) == Len(r) \in {3, 4}
DecodeListenerItems(configs) ==
    LET good == SelectSeq(configs, WellFormed)
    IN [n \in 1..Len(good) |->
          LET r == good[n]
          IN ListenerItem(ConfigKey(r[1], r[2], IF Len(r) = 4 THEN r[3] ELSE ""),
                          r[Len(r)])]

\* ListenerParams::select_option (lines 238-242)
ListenerSelectOption(a, o) == SelectOptionByClone(a, o)

\* The items handed on without the fingerprints the client sent.
ToItemsNoMd5(configs) ==
    LET its == DecodeListenerItems(UnwrapOr(configs, <<>>))
    IN [n \in 1..Len(its) |-> ListenerItem(its[n].key, "")]

\* Only the first item of the list taken.
ToItemsFirst(configs) ==
    LET its == DecodeListenerItems(UnwrapOr(configs, <<>>))
    IN SubSeq(its, 1, min(1, Len(its)))

\* ListenerParams::to_items (lines 244-247)
ToItems(configs) == DecodeListenerItems(UnwrapOr(configs, <<>>))

\* ConfigKey::build_key: data_id 0x02 group [0x02 tenant]
BuildKey(k) ==
    IF k.tenant = "" THEN <<k.data_id, Sep2, k.group>>
    ELSE <<k.data_id, Sep2, k.group, Sep2, k.tenant>>

BodyConfigs(i) ==
    IF i = 1
    THEN {None, Some(<<>>), Some(<< <<"a">> >>)}
         \cup {Some(<< <<"a", DefaultGroup, f>> >>) : f \in {"", "F1"}}
         \cup {Some(<< <<"b", DefaultGroup, "">> >>)}
         \cup {Some(<< <<"a", DefaultGroup, "F1">>, <<"b", DefaultGroup, "">> >>)}
         \cup {Some(<< <<"a", DefaultGroup, "F1">>, <<"b", DefaultGroup, "t1", "F1">> >>)}
    ELSE IF i = 2 THEN {Some(<< <<"a", DefaultGroup, "F1">> >>)}
    ELSE {}
QueryConfigs(i) == IF i = 1 THEN {None, Some(<<>>)} ELSE {None}
\* The form fields sent with the query field `a`: with a query that gives the
\* field, none or a list of one item.
FormConfigs(i, a) ==
    IF IsSome(a) THEN {None, Some(<< <<"a", DefaultGroup, "F1">> >>)} ELSE BodyConfigs(i)

\* ------------------------------------- Long-Pulling-Timeout (lines 276-287)
\* The header: absent; bytes that are not visible ASCII ("opaque"); visible
\* ASCII that is no integer ("text"); an integer literal of i64 ("int", its
\* value v); an integer literal outside i64 ("big", v its sign).
Header(kind, v) == [kind |-> kind, v |-> v]
Headers(i) ==
    IF i = 1
    THEN {Header("absent", 0), Header("opaque", 0), Header("text", 0), Header("big", 1)}
         \cup {Header("int", v) : v \in {-1, 60000, 120001}}
    ELSE {Header("int", 120000)}

\* HeaderValue::to_str fails on a value that is not visible ASCII.
ToStrOk(h) == h.kind # "opaque"
\* str::parse::<i64>
ParseOk(h) == h.kind = "int"

\* min and max taken the wrong way round.
TimeOutSwapped(current_time, h) ==
    IF h.kind = "absent" THEN 0
    ELSE IF ParseOk(h)
         THEN current_time + max(min(MinTimeout, h.v), MaxTimeout) - TimeoutMargin
         ELSE 0

\* A wait in place of a deadline: current_time left out.
TimeOutRelative(current_time, h) ==
    IF h.kind = "absent" THEN 0
    ELSE IF ParseOk(h)
         THEN min(max(MinTimeout, h.v), MaxTimeout) - TimeoutMargin
         ELSE 0

\* time_out as listener_config computes it, given to_str succeeded.
TimeOut(current_time, h) ==
    IF h.kind = "absent" THEN 0
    ELSE IF ParseOk(h)
         THEN current_time + min(max(MinTimeout, h.v), MaxTimeout) - TimeoutMargin
         ELSE 0

\* ------------------------------------- listener response (lines 292-305)
RECURSIVE Concat(_)
Concat(ss) == IF ss = <<>> THEN <<>> ELSE Head(ss) \o Concat(Tail(ss))

\* serde_urlencoded's byte escaping, on the tokens of the key alphabet.
Escape(tok) == CASE tok = Sep1 -> "%01"
                 [] tok = Sep2 -> "%02"
                 [] OTHER -> tok
UrlEncodeField(name, value) ==
    <<name, "=">> \o [n \in 1..Len(value) |-> Escape(value[n])]

\* The changed-key branch answering like the no-change branch.
ListenerBodyNoData(isData, list) == <<>>

\* The field-name prefix of the encoder left in the body.
ListenerBodyUnsliced(isData, list) ==
    IF isData
    THEN LET data == Concat([n \in 1..Len(list) |-> BuildKey(list[n]) \o <<Sep1>>])
         IN UrlEncodeField("_", data) \o <<"\n">>
    ELSE <<>>

\* The newline appended after the match, to either result.
ListenerBodyNewline(isData, list) ==
    (IF isData
     THEN LET data == Concat([n \in 1..Len(list) |-> BuildKey(list[n]) \o <<Sep1>>])
              t == UrlEncodeField("_", data)
          IN SubSeq(t, 3, Len(t))
     ELSE <<>>) \o <<"\n">>

ListenerBody(isData, list) ==
    IF isData
    THEN LET data == Concat([n \in 1..Len(list) |-> BuildKey(list[n]) \o <<Sep1>>])
             t == UrlEncodeField("_", data)
         IN SubSeq(t, 3, Len(t)) \o <<"\n">>
    ELSE <<>>


\* ------------------------------------------------------------------ state
VARIABLES
    reqs,      \* per slot: the request a handler is serving and where it stands
    chan,      \* per slot: the oneshot channel of a listener request
    store,     \* the config actor's map ConfigKey -> [content, md5]
    pending,   \* the listener registry: the slots whose watch is held
    raftLog,   \* committed writes the actor has not applied yet, in commit order
    busy,      \* the write the actor has stored and not yet notified, if any
    now,       \* the clock, ms
    shadow,    \* history: the map after every committed write, in commit order
    hit        \* history: per watch, the keys a differing write touched in time

vars == <<reqs, chan, store, pending, raftLog, busy, now, shadow, hit>>

IdleReq ==
    [kind |-> "none", pc |-> "idle", body |-> "ok", sel |-> EmptyParams,
     key |-> NoKey, content |-> "", items |-> <<>>, hdr |-> Header("absent", 0),
     configs |-> None, current_time |-> 0, time_out |-> 0, route |-> "none", got |-> None,
     resp |-> NoResponse,
     qry |-> EmptyParams, form |-> EmptyParams, qcfg |-> None, bcfg |-> None]

NoChan == [st |-> "none", isData |-> FALSE, list |-> <<>>, n |-> 0, waits |-> 0,
           by |-> "none", at |-> 0, key |-> NoKey]

EmptyStore == [k \in {} |-> [content |-> "", md5 |-> ""]]

Init ==
    /\ reqs = [i \in Slots |-> IdleReq]
    /\ chan = [i \in Slots |-> NoChan]
    /\ store = EmptyStore
    /\ pending = {}
    /\ raftLog = <<>>
    /\ busy = <<>>
    /\ now = 1
    /\ shadow = EmptyStore
    /\ hit = [i \in Slots |-> {}]

Free(i) == reqs[i].pc = "idle"

Done(r, resp) == [r EXCEPT !.pc = "done", !.resp = resp]

\* ------------------------------------------------------- the store (4.1)
LiveMd5(s, key) == IF key \in DOMAIN s THEN s[key].md5 ELSE ""

ApplyEntry(s, e) ==
    IF e.op = "set"
    THEN [k \in DOMAIN s \cup {e.key} |->
            IF k = e.key THEN [content |-> e.content, md5 |-> Md5(e.content)] ELSE s[k]]
    ELSE [k \in DOMAIN s \ {e.key} |-> s[k]]

ItemKeys(items) == {items[n].key : n \in 1..Len(items)}
KeysOf(items) == [n \in 1..Len(items) |-> items[n].key]

\* The keys of `items` whose known fingerprint differs from the live one.
Changed(s, items) ==
    KeysOf(SelectSeq(items, LAMBDA it : it.md5 # LiveMd5(s, it.key)))

\* ------------------------------------- add_config / del_config (87-193)
\* The form bodies sent with the query `a`: none, or, with a query that
\* leaves out or empties some fields, one that gives them all.
FullForm == [data_id |-> Some("a"), group |-> None, tenant |-> Some("bad!"),
             content |-> Some("v1")]
BodyParams(i, a) ==
    IF i = 1 /\ a.data_id # Some("a") /\ a.tenant \in {None, Some("public")}
             /\ a.content # Some("v1")
    THEN {EmptyParams, FullForm}
    ELSE {EmptyParams}

\* The handler up to its call of the router: body, merge, validation.
WriteEntry(kind, a, bk, b, contentArg) ==
    LET r == [IdleReq EXCEPT !.kind = kind, !.body = bk, !.qry = a]
    IN IF bk = "read_err" THEN Done(r, InternalServerError("payload error"))
       ELSE IF bk = "decode_err" THEN Done(r, InternalServerError("decode error"))
       ELSE
         LET selected_param == SelectOption(a, b)
             s == [r EXCEPT !.sel = selected_param, !.form = b]
             ct == CheckTenant(selected_param.tenant)
             cp == CheckParam(selected_param.data_id, selected_param.group,
                              Some("datumId"),
                              IF kind = "add" THEN selected_param.content ELSE contentArg)
             param == ToConfirmedParam(selected_param)
         IN IF ~ct.ok THEN Done(s, InternalServerError(ct.err))
            ELSE IF ~cp.ok THEN Done(s, InternalServerError(cp.err))
            ELSE IF ~param.ok THEN Done(s, InternalServerError(param.err))
            ELSE [s EXCEPT !.pc = "routing",
                           !.key = ConfigKey(param.val.data_id, param.val.group,
                                             param.val.tenant),
                           !.content = IF kind = "add" THEN param.val.content ELSE ""]

AddConfigEntry(a, bk, b) == WriteEntry("add", a, bk, b, None)
DelConfigEntry(a, bk, b) == WriteEntry("del", a, bk, b, Some("rm"))

AddConfig(i) ==
    /\ Free(i)
    /\ \E a \in QueryParams(i), bk \in BodyKinds(i) : \E b \in BodyParams(i, a) :
          reqs' = [reqs EXCEPT ![i] = AddConfigEntry(a, bk, b)]
    /\ UNCHANGED <<chan, store, pending, raftLog, busy, now, shadow, hit>>

DelConfig(i) ==
    /\ Free(i)
    /\ \E a \in DelParams(i), bk \in BodyKinds(i) : \E b \in BodyParams(i, a) :
          reqs' = [reqs EXCEPT ![i] = DelConfigEntry(a, bk, b)]
    /\ UNCHANGED <<chan, store, pending, raftLog, busy, now, shadow, hit>>

\* The match arms taken the wrong way round.
RouteResponseSwapped(route) ==
    IF route = "Ok" THEN InternalServerError("route error") ELSE OkTrue

\* The router's error ignored.
RouteResponseIgnoresErr(route) == OkTrue

\* What the handler answers once config_route.set_config / del_config returned.
RouteResponse(route) ==
    IF route = "Ok" THEN OkTrue ELSE InternalServerError("route error")

AddConfigRespond(i) ==
    /\ reqs[i].kind = "add"
    /\ reqs[i].pc = "routed"
    /\ reqs' = [reqs EXCEPT ![i] = Done(@, RouteResponse(@.route))]
    /\ UNCHANGED <<chan, store, pending, raftLog, busy, now, shadow, hit>>

DelConfigRespond(i) ==
    /\ reqs[i].kind = "del"
    /\ reqs[i].pc = "routed"
    /\ reqs' = [reqs EXCEPT ![i] = Done(@, RouteResponse(@.route))]
    /\ UNCHANGED <<chan, store, pending, raftLog, busy, now, shadow, hit>>

\* ------------------------------------------- the cluster write router (4.4)
LogEntry(i) ==
    [op |-> IF reqs[i].kind = "add" THEN "set" ELSE "del",
     key |-> reqs[i].key, content |-> reqs[i].content, req |-> i]

\* propose commits: the write joins the committed log.
RouterCommit(i) ==
    /\ reqs[i].pc = "routing"
    /\ reqs' = [reqs EXCEPT ![i].pc = "committed"]
    /\ raftLog' = Append(raftLog, LogEntry(i))
    /\ shadow' = ApplyEntry(shadow, LogEntry(i))
    /\ UNCHANGED <<chan, store, pending, busy, now, hit>>

\* propose fails: not leader, quorum loss, timeout.
RouterReject(i) ==
    /\ i \in FaultySlots
    /\ reqs[i].pc = "routing"
    /\ reqs' = [reqs EXCEPT ![i].pc = "routed", ![i].route = "Err"]
    /\ UNCHANGED <<chan, store, pending, raftLog, busy, now, shadow, hit>>


\* ------------------------------------------------- the config actor (4.5, 5)
\* The actor handles one command at a time: nothing else of the actor runs
\* between a write's store step and its notification.
ActorIdle == busy = <<>>

Resolve(c, isData, list, by, key) ==
    [c EXCEPT !.st = "sent", !.isData = isData, !.list = list, !.n = @ + 1,
              !.by = by, !.at = now, !.key = key]

InFlight(w) == reqs[w].kind = "listener" /\ reqs[w].pc = "sending"

\* History: the watched keys a differing write reached before the deadline,
\* while the watch was registered or on its way to the registry.  A write
\* that restores the known fingerprint before registration takes the key out.
HitAfter(w, e, s) ==
    LET its == reqs[w].items
        mine == {n \in 1..Len(its) : its[n].key = e.key}
        differs == \E n \in mine : its[n].md5 # LiveMd5(s, e.key)
    IN IF mine = {} \/ ~(w \in pending \/ InFlight(w)) THEN hit[w]
       ELSE IF differs /\ now < reqs[w].time_out THEN hit[w] \cup {e.key}
       ELSE IF ~differs /\ InFlight(w) THEN hit[w] \ {e.key}
       ELSE hit[w]

\* set / delete: the store step of the next committed write.
ActorApply ==
    /\ ActorIdle
    /\ raftLog # <<>>
    /\ LET e == Head(raftLog)
       IN /\ store' = ApplyEntry(store, e)
          /\ busy' = <<e>>
          /\ raftLog' = Tail(raftLog)
          /\ hit' = [w \in Slots |-> HitAfter(w, e, ApplyEntry(store, e))]
          /\ reqs' = [reqs EXCEPT ![e.req].pc = "applied"]
    /\ UNCHANGED <<chan, pending, now, shadow>>

\* on_mutation(key): every held watch that names the key is released with the
\* key and whatever else of its items differs by now.
Woken(key) == {w \in pending : key \in ItemKeys(reqs[w].items)}
MutationList(items, key) ==
    KeysOf(SelectSeq(items, LAMBDA it : it.key = key \/ it.md5 # LiveMd5(store, it.key)))

OnMutation ==
    /\ busy # <<>>
    /\ LET e == Head(busy)
       IN /\ chan' = [w \in Slots |->
                        IF w \in Woken(e.key)
                        THEN Resolve(chan[w], TRUE, MutationList(reqs[w].items, e.key),
                                     "mutation", e.key)
                        ELSE chan[w]]
          /\ pending' = pending \ Woken(e.key)
          /\ reqs' = [reqs EXCEPT ![e.req].pc = "routed", ![e.req].route = "Ok"]
    /\ busy' = <<>>
    /\ UNCHANGED <<store, raftLog, now, shadow, hit>>

\* register(watch): ConfigCmd::LISTENER(list, tx, time_out) reaches the actor.
Register(i) ==
    /\ ActorIdle
    /\ InFlight(i)
    /\ LET changes == Changed(store, reqs[i].items)
       IN IF changes # <<>>
          THEN /\ chan' = [chan EXCEPT ![i] = Resolve(@, TRUE, changes, "register", NoKey)]
               /\ UNCHANGED pending
          ELSE IF reqs[i].time_out <= now
          THEN /\ chan' = [chan EXCEPT ![i] = Resolve(@, FALSE, <<>>, "register", NoKey)]
               /\ UNCHANGED pending
          ELSE /\ pending' = pending \cup {i}
               /\ UNCHANGED chan
    /\ reqs' = [reqs EXCEPT ![i].pc = "waiting"]
    /\ UNCHANGED <<store, raftLog, busy, now, shadow, hit>>

\* on_deadline(watch_id)
OnDeadline(i) ==
    /\ ActorIdle
    /\ i \in pending
    /\ reqs[i].time_out <= now
    /\ chan' = [chan EXCEPT ![i] = Resolve(@, FALSE, <<>>, "deadline", NoKey)]
    /\ pending' = pending \ {i}
    /\ UNCHANGED <<reqs, store, raftLog, busy, now, shadow, hit>>

\* ConfigCmd::GET(key)
ActorGet(i) ==
    /\ ActorIdle
    /\ reqs[i].kind = "get"
    /\ reqs[i].pc = "sending"
    /\ reqs' = [reqs EXCEPT ![i].pc = "replied",
                            ![i].got = IF reqs[i].key \in DOMAIN store
                                       THEN Some(store[reqs[i].key]) ELSE None]
    /\ UNCHANGED <<chan, store, pending, raftLog, busy, now, shadow, hit>>

\* Addr::send fails: the actor's mailbox is closed, the command is dropped
\* (and with it, for a listener, the sending half of the channel).
MailboxError(i) ==
    /\ i \in FaultySlots
    /\ reqs[i].pc = "sending"
    /\ IF reqs[i].kind = "listener"
       THEN /\ reqs' = [reqs EXCEPT ![i].pc = "waiting"]
            /\ chan' = [chan EXCEPT ![i].st = "closed"]
       ELSE /\ reqs' = [reqs EXCEPT ![i].pc = "send_err"]
            /\ UNCHANGED chan
    /\ UNCHANGED <<store, pending, raftLog, busy, now, shadow, hit>>

\* ---------------------------------------------------- get_config (195-229)
GetConfigEntry(a) ==
    LET r == [IdleReq EXCEPT !.kind = "get", !.sel = a]
        param == ToConfirmedParam(a)
    IN IF param.ok
       THEN [r EXCEPT !.pc = "sending",
                      !.key = ConfigKey(param.val.data_id, param.val.group,
                                        param.val.tenant)]
       ELSE Done(r, InternalServerError(param.err))

GetConfig(i) ==
    /\ Free(i)
    /\ \E a \in GetParams(i) :
          reqs' = [reqs EXCEPT ![i] = GetConfigEntry(a)]
    /\ UNCHANGED <<chan, store, pending, raftLog, busy, now, shadow, hit>>

NotFound == Response(404, <<"config data not exist">>, "")

\* The fingerprint header left out of the answer.
GetResponseNoMd5(r) ==
    IF r.pc = "send_err" THEN InternalServerError("mailbox error")
    ELSE IF IsSome(r.got)
         THEN Response(200, <<Unwrap(r.got).content>>, "")
         ELSE NotFound

GetResponse(r) ==
    IF r.pc = "send_err" THEN InternalServerError("mailbox error")
    ELSE IF IsSome(r.got)
         THEN Response(200, <<Unwrap(r.got).content>>, Unwrap(r.got).md5)
         ELSE NotFound

GetConfigRespond(i) ==
    /\ reqs[i].kind = "get"
    /\ reqs[i].pc \in {"replied", "send_err"}
    /\ reqs' = [reqs EXCEPT ![i] = Done(@, GetResponse(@))]
    /\ UNCHANGED <<chan, store, pending, raftLog, busy, now, shadow, hit>>


\* ----------------------------------------------- listener_config (250-309)
ListenerEmpty == Response(204, <<"error:listener empty">>, "")

\* The empty-list check left out.
IsEmptyNever(list) == FALSE

\* Vec::is_empty on the decoded list (line 269)
IsEmpty(list) == list = <<>>

\* The handler up to its send of ConfigCmd::LISTENER; current_time is the
\* clock's value when it runs.
ListenerConfigEntry(a, bk, b, h, current_time) ==
    LET r == [IdleReq EXCEPT !.kind = "listener", !.body = bk, !.hdr = h, !.qcfg = a]
    IN IF bk = "read_err" THEN Done(r, InternalServerError("payload error"))
       ELSE IF bk = "decode_err" THEN Done(r, InternalServerError("decode error"))
       ELSE
         LET configs == ListenerSelectOption(a, b)
             list == ToItems(configs)
             s == [r EXCEPT !.configs = configs, !.bcfg = b]
         IN IF IsEmpty(list) THEN Done(s, ListenerEmpty)
            ELSE IF ~ToStrOk(h)
                 THEN [s EXCEPT !.pc = "panicked", !.items = list,
                                !.current_time = current_time]
                 ELSE [s EXCEPT !.pc = "sending", !.items = list,
                                !.current_time = current_time,
                                !.time_out = TimeOut(current_time, h)]

ListenerConfig(i) ==
    /\ Free(i)
    /\ \E a \in QueryConfigs(i), bk \in BodyKinds(i), h \in Headers(i) :
       \E b \in FormConfigs(i, a) :
         LET r == ListenerConfigEntry(a, bk, b, h, now)
         IN /\ reqs' = [reqs EXCEPT ![i] = r]
            /\ chan' = [chan EXCEPT ![i].st =
                          IF r.pc = "sending" THEN "open"
                          ELSE IF r.pc = "panicked" THEN "closed" ELSE @]
    /\ UNCHANGED <<store, pending, raftLog, busy, now, shadow, hit>>

\* The handler answering without waiting for the channel.
RxReadyAtOnce(c) == TRUE

\* Never waking: the handler left suspended on its channel.
RxReadyNever(c) == FALSE

\* rx.await returns once the channel holds a value or its sender is gone.
RxReady(c) == c.st \in {"sent", "closed"}

ListenerResponse(c) == Response(200, ListenerBody(c.isData, c.list), "")

ListenerRespond(i) ==
    /\ reqs[i].kind = "listener"
    /\ reqs[i].pc = "waiting"
    /\ RxReady(chan[i])
    /\ chan' = [chan EXCEPT ![i].waits = @ + 1]
    /\ IF chan[i].st = "closed"
       THEN reqs' = [reqs EXCEPT ![i].pc = "panicked"]
       ELSE reqs' = [reqs EXCEPT ![i] = Done(@, ListenerResponse(chan[i]))]
    /\ UNCHANGED <<store, pending, raftLog, busy, now, shadow, hit>>

\* ------------------------------------------------------------ environment
\* The instants at which the model looks at the clock: the start, and the
\* shortest and the longest wait after it.
Instants == {1, 1 + MinTimeout - TimeoutMargin, 1 + MaxTimeout - TimeoutMargin}

Tick ==
    /\ \E t \in Instants : t > now /\ now' = t
    /\ UNCHANGED <<reqs, chan, store, pending, raftLog, busy, shadow, hit>>

\* A finished request leaves its slot.
Reap(i) ==
    /\ reqs[i].pc \in {"done", "panicked"}
    /\ reqs' = [reqs EXCEPT ![i] = IdleReq]
    /\ chan' = [chan EXCEPT ![i] = NoChan]
    /\ hit' = [hit EXCEPT ![i] = {}]
    /\ UNCHANGED <<store, pending, raftLog, busy, now, shadow>>

Next ==
    \/ \E i \in Slots : AddConfig(i)
    \/ \E i \in Slots : DelConfig(i)
    \/ \E i \in Slots : GetConfig(i)
    \/ \E i \in Slots : ListenerConfig(i)
    \/ \E i \in Slots : RouterCommit(i)
    \/ \E i \in Slots : RouterReject(i)
    \/ ActorApply
    \/ OnMutation
    \/ \E i \in Slots : Register(i)
    \/ \E i \in Slots : OnDeadline(i)
    \/ \E i \in Slots : ActorGet(i)
    \/ \E i \in Slots : MailboxError(i)
    \/ \E i \in Slots : AddConfigRespond(i)
    \/ \E i \in Slots : DelConfigRespond(i)
    \/ \E i \in Slots : GetConfigRespond(i)
    \/ \E i \in Slots : ListenerRespond(i)
    \/ \E i \in Slots : Reap(i)
    \/ Tick

Spec == Init /\ [][Next]_vars

\* ------------------------------------------------- the system left to run
\* Requests arrive at the instants of the clock; in between the clock moves
\* to the deadlines of the watches that are held and only the work in hand
\* goes on.
Deadlines == {reqs[w].time_out : w \in pending}

TickToDeadline ==
    /\ \E t \in Deadlines : t > now /\ now' = t
    /\ UNCHANGED <<reqs, chan, store, pending, raftLog, busy, shadow, hit>>

Arrival ==
    \E i \in Slots : AddConfig(i) \/ DelConfig(i) \/ GetConfig(i) \/ ListenerConfig(i)

LiveNext ==
    \/ now \in Instants /\ Arrival
    \/ \E i \in Slots : RouterCommit(i)
    \/ \E i \in Slots : RouterReject(i)
    \/ ActorApply
    \/ OnMutation
    \/ \E i \in Slots : Register(i)
    \/ \E i \in Slots : OnDeadline(i)
    \/ \E i \in Slots : ActorGet(i)
    \/ \E i \in Slots : MailboxError(i)
    \/ \E i \in Slots : AddConfigRespond(i)
    \/ \E i \in Slots : DelConfigRespond(i)
    \/ \E i \in Slots : GetConfigRespond(i)
    \/ \E i \in Slots : ListenerRespond(i)
    \/ \E i \in Slots : Reap(i)
    \/ Tick
    \/ TickToDeadline

\* What the runtime guarantees with no help from new traffic: the clock goes
\* on, the actor finishes the command it is in and gets to every timer that
\* is due, and a handler whose channel is ready is resumed.
Fairness ==
    /\ WF_vars(TickToDeadline)
    /\ WF_vars(OnMutation)
    /\ \A i \in Slots : SF_vars(OnDeadline(i))
    /\ \A i \in Slots : WF_vars(ListenerRespond(i))

LiveSpec == Init /\ [][LiveNext]_vars /\ Fairness


\* ================================================================ claims
Range(q) == {q[n] : n \in 1..Len(q)}
IsWatch(w) == reqs[w].kind = "listener"
IsWrite(i) == reqs[i].kind \in {"add", "del"}

\* The response body names the key: its data_id and its group, one separator
\* apart.
BodyNames(body, k) ==
    \E n \in 1..Len(body) : n + 2 <= Len(body) /\ body[n] = k.data_id /\ body[n + 2] = k.group

\* C1 (no-miss): a watch that a differing write on one of its keys reached
\* before its deadline, whether the write came after its registration or
\* between its send and its registration, is not left held once the actor is
\* done with the write, is never resolved with no-change, is resolved with a
\* changed list holding every such key, and its response names them.
NoMiss ==
    \A w \in Slots :
        (IsWatch(w) /\ hit[w] # {}) =>
            /\ (ActorIdle => w \notin pending)
            /\ (chan[w].st = "sent" =>
                    chan[w].isData /\ hit[w] \subseteq Range(chan[w].list))
            /\ (reqs[w].pc = "done" =>
                    /\ reqs[w].resp.status = 200
                    /\ \A k \in hit[w] : BodyNames(reqs[w].resp.body, k))

\* C1 witness: a held watch was reached by a write, woken by on_mutation and
\* answered.
NoMissWitness ==
    \E w \in Slots :
        /\ IsWatch(w) /\ hit[w] # {} /\ reqs[w].pc = "done"
        /\ chan[w].by = "mutation"

\* C2 (exactly once): a channel is completed at most once and awaited at most
\* once; a held watch is unresolved; a listener that answered from its
\* channel found it completed exactly once and waited exactly once.
ExactlyOnce ==
    \A w \in Slots :
        /\ chan[w].n <= 1
        /\ chan[w].waits <= 1
        /\ (chan[w].st = "sent" <=> chan[w].n = 1)
        /\ (w \in pending => chan[w].st = "open" /\ reqs[w].pc = "waiting")
        /\ (IsWatch(w) /\ reqs[w].pc = "done" /\ reqs[w].resp.status = 200 =>
                chan[w].n = 1 /\ chan[w].waits = 1 /\ w \notin pending)

\* C2 witness: a watch resolved by its deadline has answered; the write of a
\* key it watches that is applied afterwards does not resolve it again.
ExactlyOnceWitness ==
    \E w \in Slots :
        /\ IsWatch(w) /\ reqs[w].pc = "done" /\ chan[w].by = "deadline"
        /\ chan[w].n = 1
        /\ busy # <<>> /\ Head(busy).key \in ItemKeys(reqs[w].items)

RECURSIVE Replay(_, _)
Replay(s, log) == IF log = <<>> THEN s ELSE Replay(ApplyEntry(s, Head(log)), Tail(log))

\* The store holds the committed writes, in commit order, and nothing else:
\* with the committed writes still to apply it is the committed map.
StoreIsCommitted == Replay(store, raftLog) = shadow

Queued(i) == \E n \in 1..Len(raftLog) : raftLog[n].req = i
Storing(i) == busy # <<>> /\ Head(busy).req = i

\* Where a write stands: proposed, committed, stored, notified, answered.
WriteStages ==
    \A i \in Slots : IsWrite(i) =>
        /\ (reqs[i].pc = "routing" => ~Queued(i) /\ ~Storing(i) /\ reqs[i].route = "none")
        /\ (reqs[i].pc = "committed" <=> Queued(i))
        /\ (reqs[i].pc = "applied" <=> Storing(i))
        /\ (reqs[i].route = "Ok" => reqs[i].pc \in {"routed", "done"})
        /\ (reqs[i].resp = OkTrue => reqs[i].route = "Ok" /\ reqs[i].pc = "done")

\* A watch is released by a write only in the step that follows the store
\* step of that write, the store holding the write.
NotifyAfterStore ==
    \A w \in Slots :
        (chan[w].st = "open" /\ chan'[w].st = "sent" /\ chan'[w].by = "mutation") =>
            /\ busy # <<>>
            /\ chan'[w].key = Head(busy).key
            /\ store = ApplyEntry(store, Head(busy))
            /\ store' = store

\* C3 (write ordering): commit, then store, then notification, then the
\* success response: the store never holds an uncommitted write, no watch is
\* released for a write the store does not hold, and "true" is answered only
\* after the router returned Ok, which it does only after the notification.
WriteOrdering ==
    /\ [](StoreIsCommitted /\ WriteStages)
    /\ [][NotifyAfterStore]_vars

\* C3 witness: a publish was answered "true" while a watch it released is
\* still waiting to answer.
WriteOrderingWitness ==
    \E i, w \in Slots :
        /\ reqs[i].kind = "add" /\ reqs[i].resp = OkTrue
        /\ IsWatch(w) /\ chan[w].by = "mutation" /\ reqs[w].pc = "waiting"

Rejected(r) == r.kind \in {"add", "del"} /\ r.route = "Err"

\* A step of a rejected write (the rejection, the answer) leaves the store,
\* the log, the pending table and every channel alone.
RejectTouchesNothing ==
    \A i \in Slots :
        (Rejected(reqs'[i]) /\ reqs'[i] # reqs[i]) =>
            UNCHANGED <<store, raftLog, busy, pending, chan, shadow>>

\* C4 (write rejected): a write the router rejects is answered with a
\* failure, never with "true"; it never enters the log or the store, and its
\* steps change neither the store nor the pending table nor any channel.
WriteRejected ==
    /\ [](\A i \in Slots : Rejected(reqs[i]) =>
              /\ ~Queued(i) /\ ~Storing(i)
              /\ reqs[i].pc \in {"routed", "done"}
              /\ (reqs[i].pc = "done" =>
                      reqs[i].resp.status = 500 /\ reqs[i].resp # OkTrue))
    /\ [](StoreIsCommitted)
    /\ [][RejectTouchesNothing]_vars

\* C4 witness: a rejected publish of a new content was answered while a watch
\* on its key, knowing the old content, is still held.
WriteRejectedWitness ==
    \E i, w \in Slots :
        /\ reqs[i].kind = "add" /\ Rejected(reqs[i]) /\ reqs[i].pc = "done"
        /\ w \in pending /\ reqs[i].key \in ItemKeys(reqs[w].items)
        /\ reqs[i].key \in DOMAIN store
        /\ store[reqs[i].key].content # reqs[i].content


\* The effective identifying fields fail validation: dataId missing or empty,
\* or a tenant of invalid syntax.
BadIdentity(r) ==
    /\ r.body = "ok"
    /\ \/ ~IsSome(r.sel.data_id)
       \/ Unwrap(r.sel.data_id) = ""
       \/ IsSome(r.sel.tenant) /\ Unwrap(r.sel.tenant) \in InvalidTenants

\* C5 (validation at the boundary), as claimed: a get, publish or delete
\* whose dataId is missing or empty, or whose tenant is invalid, is answered
\* with an error at once: it never has a command on its way to the actor or
\* the router, and never an answer from them.
ValidationAtBoundary ==
    \A i \in Slots :
        (reqs[i].kind \in {"get", "add", "del"} /\ BadIdentity(reqs[i])) =>
            /\ reqs[i].pc = "done"
            /\ reqs[i].resp.status >= 400
            /\ reqs[i].resp # NotFound
            /\ reqs[i].route = "none"

\* C6 (validation is a client error), as claimed: a publish or delete that
\* fails validation is answered in the client-error class, with the message
\* as its body.
ValidationIsClientError ==
    \A i \in Slots :
        (IsWrite(i) /\ reqs[i].pc = "done" /\ reqs[i].body = "ok"
            /\ reqs[i].route = "none") =>
            /\ reqs[i].resp.status \in 400..499
            /\ Len(reqs[i].resp.body) = 1

\* The LISTENER command of the request was built: the list is not empty and
\* the header, if any, is text.
Built(r) == r.kind = "listener" /\ r.items # <<>> /\ ToStrOk(r.hdr)

Clamped(t) == IF t < 10000 THEN 10000 ELSE IF t > 120000 THEN 120000 ELSE t

\* C7 (deadline clamp), amended: for every header value t that parses as a
\* 64-bit integer, the deadline sent is the request time + clamp(t, 10000,
\* 120000) - 500: the wait lies in 9500..119500, is 9500 below 10000 and
\* 119500 above 120000.
DeadlineClampI64 ==
    \A i \in Slots :
        (Built(reqs[i]) /\ reqs[i].hdr.kind = "int") =>
            LET t == reqs[i].hdr.v
                wait == reqs[i].time_out - reqs[i].current_time
            IN /\ wait = Clamped(t) - 500
               /\ wait \in 9500..119500
               /\ (t < 10000 => wait = 9500)
               /\ (t > 120000 => wait = 119500)

\* C7 witness: a timeout above the cap, asked for after the start of the
\* clock, is held with the longest wait.
DeadlineClampWitness ==
    \E i \in Slots :
        /\ i \in pending /\ reqs[i].hdr = Header("int", 120001)
        /\ reqs[i].current_time > 1
        /\ reqs[i].time_out = reqs[i].current_time + 119500

\* C7 as claimed: the same for every integer value of the header, those
\* beyond 64 bits included (a value above the cap has the longest wait).
DeadlineClamp ==
    \A i \in Slots :
        (Built(reqs[i]) /\ reqs[i].hdr.kind \in {"int", "big"}) =>
            LET h == reqs[i].hdr
                clamp == IF h.kind = "int" THEN Clamped(h.v)
                         ELSE IF h.v > 0 THEN 120000 ELSE 10000
            IN reqs[i].time_out = reqs[i].current_time + clamp - 500

\* C8 (no usable timeout), as claimed: with the header absent or not parsing
\* as an integer, the watch is sent with a deadline not later than the
\* request time, is never held, and is resolved by its registration alone.
ImmediateCheck ==
    \A i \in Slots :
        (IsWatch(i) /\ reqs[i].body = "ok" /\ ToItems(reqs[i].configs) # <<>>
            /\ reqs[i].hdr.kind # "int") =>
            /\ Built(reqs[i])
            /\ reqs[i].time_out <= reqs[i].current_time
            /\ i \notin pending
            /\ (chan[i].st = "sent" => chan[i].by = "register")

\* C9 (empty watch rejected): a watch whose decoded list is empty is
\* answered 204 "error:listener empty" at once, with no channel, no command
\* and no entry in the pending table; whatever was sent or is held has items.
EmptyWatchRejected ==
    \A i \in Slots :
        (IsWatch(i) /\ reqs[i].body = "ok") =>
            /\ (ToItems(reqs[i].configs) = <<>> =>
                    /\ reqs[i].pc = "done"
                    /\ reqs[i].resp = Response(204, <<"error:listener empty">>, "")
                    /\ chan[i] = NoChan
                    /\ i \notin pending)
            /\ ((reqs[i].pc \in {"sending", "waiting"} \/ i \in pending
                    \/ chan[i].st # "none") =>
                    reqs[i].items # <<>> /\ reqs[i].items = ToItems(reqs[i].configs))

\* C9 witness: a malformed list was answered 204.
EmptyWatchWitness ==
    \E i \in Slots :
        /\ IsWatch(i) /\ reqs[i].configs = Some(<< <<"a">> >>)
        /\ reqs[i].resp.status = 204

\* What may resolve a watch: the write of one of its keys, in its
\* notification, with that key in the list; its deadline, elapsed, with
\* no-change; its registration finding a difference.
ResolveCause ==
    \A w \in Slots :
        (chan[w].st = "open" /\ chan'[w].st = "sent") =>
            \/ /\ busy # <<>> /\ w \in pending
               /\ Head(busy).key \in ItemKeys(reqs[w].items)
               /\ chan'[w].isData /\ Head(busy).key \in Range(chan'[w].list)
            \/ /\ reqs[w].time_out <= now
               /\ ~chan'[w].isData
            \/ /\ reqs[w].pc = "sending"
               /\ Changed(store, reqs[w].items) # <<>>
               /\ chan'[w].isData /\ chan'[w].list = Changed(store, reqs[w].items)

\* C10 (no premature resolution): a held watch is unresolved; a watch is
\* resolved only by the write of one of its keys (never of another key), by
\* its elapsed deadline, or by a difference found at registration; it is
\* never resolved with no-change before its deadline, which with a valid
\* timeout is at least 9500 ms after the request.
NoPrematureResolution ==
    /\ [](\A w \in Slots :
            /\ (w \in pending => chan[w].st = "open")
            /\ (chan[w].st = "sent" /\ ~chan[w].isData =>
                    /\ chan[w].at >= reqs[w].time_out
                    /\ (reqs[w].hdr.kind = "int" =>
                            chan[w].at >= reqs[w].current_time + 9500))
            /\ (chan[w].st = "sent" /\ chan[w].by = "mutation" =>
                    chan[w].key \in ItemKeys(reqs[w].items)))
    /\ [][ResolveCause]_vars

\* C10 witness: a watch is held, before its deadline, while the actor is
\* in the middle of the write of a key that is none of its items.
NoPrematureWitness ==
    \E w \in Slots :
        /\ w \in pending /\ reqs[w].hdr.kind = "int" /\ now < reqs[w].time_out
        /\ busy # <<>> /\ Head(busy).key \notin ItemKeys(reqs[w].items)

\* The deadline acts only on a watch still held with its deadline elapsed,
\* and resolves it with no-change.
DeadlineStep ==
    \A w \in Slots :
        (chan[w].st = "open" /\ chan'[w].st = "sent" /\ chan'[w].by = "deadline") =>
            /\ w \in pending /\ w \notin pending'
            /\ reqs[w].time_out <= now
            /\ ~chan'[w].isData /\ chan'[w].list = <<>>

\* C11 (deadline liveness): with no further request or write needed, every
\* watch that is held leaves the pending table resolved, a watch still held
\* at its deadline is resolved with no-change and removed, and the handler
\* of every accepted watch returns a response.
DeadlineLiveness ==
    /\ \A w \in Slots : (w \in pending \/ (IsWatch(w) /\ chan[w].st = "sent"))
                            ~> (IsWatch(w) /\ reqs[w].pc = "done" /\ reqs[w].resp.status = 200
                                    /\ w \notin pending /\ chan[w].st = "sent")
    /\ [][DeadlineStep]_vars

\* C11 witness: a watch asked for after the start of the clock was resolved
\* by its deadline and answered no-change, nothing else being in hand.
DeadlineLivenessWitness ==
    \E w \in Slots :
        /\ IsWatch(w) /\ reqs[w].pc = "done" /\ chan[w].by = "deadline"
        /\ reqs[w].current_time > 1 /\ now = reqs[w].time_out
        /\ reqs[w].resp = Response(200, <<>>, "")
        /\ raftLog = <<>> /\ busy = <<>>
        /\ \A i \in Slots \ {w} : Free(i)

Lookup(m, k) == IF k \in DOMAIN m THEN Some(m[k]) ELSE None

\* The actor's reply to a get, every committed write being applied, is the
\* entry of the committed map.
ReadsCommitted ==
    \A i \in Slots :
        (reqs[i].kind = "get" /\ reqs[i].pc = "sending" /\ reqs'[i].pc = "replied"
            /\ raftLog = <<>>) =>
            reqs'[i].got = Lookup(shadow, reqs[i].key)

\* The handler's answer to the actor's reply: the content with its
\* fingerprint, or not-found.
AnswersReply ==
    \A i \in Slots :
        (reqs[i].kind = "get" /\ reqs[i].pc = "replied" /\ reqs'[i].pc = "done") =>
            IF IsSome(reqs[i].got)
            THEN reqs'[i].resp = Response(200, <<Unwrap(reqs[i].got).content>>,
                                          Md5(Unwrap(reqs[i].got).content))
            ELSE reqs'[i].resp.status = 404

\* C12 (read after write): every entry of the store carries the fingerprint
\* of its content; a get served when every committed write is applied (so
\* after every acknowledged one) is given the last committed publish of its
\* key, or nothing if a delete was committed after it or there was none; the
\* handler answers the content with content-md5 the hash of that content, or
\* 404, which is no failure.
ReadAfterWrite ==
    /\ [](\A k \in DOMAIN store : store[k].md5 = Md5(store[k].content))
    /\ [](\A i \in Slots : reqs[i].route = "Ok" => ~Queued(i) /\ ~Storing(i))
    /\ [](StoreIsCommitted)
    /\ [][ReadsCommitted /\ AnswersReply]_vars

\* C12 witness: a publish was acknowledged and a get of its key was answered
\* with its content and the fingerprint of that content.
ReadAfterWriteWitness ==
    \E i, j \in Slots :
        /\ reqs[i].kind = "add" /\ reqs[i].resp = OkTrue /\ reqs[i].content = "v2"
        /\ reqs[j].kind = "get" /\ reqs[j].key = reqs[i].key /\ reqs[j].pc = "done"
        /\ reqs[j].resp = Response(200, <<"v2">>, "F2")

\* The three spellings of the default namespace.
DefaultTenants == {None, Some(""), Some("public")}

\* C13 (tenant normalization): a get, publish or delete whose tenant is
\* "public", "" or absent goes to the actor or the router with the key of
\* its dataId and group and the empty tenant, the same key for the three; a
\* well-formed publish or delete is accepted under each of them; so the store
\* holds one entry for the three.
TenantNormalization ==
    /\ \A i \in Slots :
        (reqs[i].kind \in {"get", "add", "del"} /\ reqs[i].body = "ok"
            /\ reqs[i].sel.tenant \in DefaultTenants) =>
            /\ (reqs[i].key # NoKey =>
                    reqs[i].key = ConfigKey(UnwrapOr(reqs[i].sel.data_id, ""),
                                            UnwrapOr(reqs[i].sel.group, DefaultGroup), ""))
            /\ (IsWrite(i) /\ CheckParam(reqs[i].sel.data_id, reqs[i].sel.group, Some("datumId"),
                                         IF reqs[i].kind = "add" THEN reqs[i].sel.content
                                         ELSE Some("rm")).ok
                    => reqs[i].key # NoKey)
    /\ \A k \in DOMAIN store : k.tenant = ""

\* C13 witness: a config published with no tenant was read, with its
\* content, by a get that names the tenant "public".
TenantNormalizationWitness ==
    \E i, j \in Slots :
        /\ reqs[i].kind = "add" /\ reqs[i].resp = OkTrue /\ reqs[i].sel.tenant = None
        /\ reqs[j].kind = "get" /\ reqs[j].sel.tenant = Some("public")
        /\ reqs[j].pc = "done" /\ reqs[j].resp.status = 200
        /\ reqs[j].resp.body = <<reqs[i].content>>

\* A key as the claim renders it, with the separators `fs` and `rs`.
Rendered(k, fs, rs) ==
    (IF k.tenant = "" THEN <<k.data_id, fs, k.group>>
     ELSE <<k.data_id, fs, k.group, fs, k.tenant>>) \o <<rs>>
Blob(list, fs, rs) ==
    Concat([n \in 1..Len(list) |-> Rendered(list[n], fs, rs)]) \o <<"\n">>

\* A watch answered from a changed-key resolution.
AnsweredData(w) ==
    IsWatch(w) /\ reqs[w].pc = "done" /\ chan[w].st = "sent" /\ chan[w].isData

Merged(q, f) == IF q # None THEN q ELSE f

\* The key of merged parameters that pass validation.
MergedKey(m) ==
    ConfigKey(Unwrap(m.data_id), UnwrapOr(m.group, DefaultGroup),
              IF m.tenant \in DefaultTenants THEN "" ELSE Unwrap(m.tenant))

\* Validation of merged parameters: dataId given and not empty, the tenant
\* of valid syntax, a publish with a content.
MergedValid(kind, m) ==
    /\ m.data_id \notin {None, Some("")}
    /\ ~(IsSome(m.tenant) /\ Unwrap(m.tenant) \in InvalidTenants)
    /\ (kind = "add" => m.content \notin {None, Some("")})

\* C15 (query/body merge): in a publish, delete or listener request whose
\* body was read, each field is the query's where the query gives it and the
\* form's otherwise, field by field; the request goes on to the router
\* exactly when the merged fields pass validation, with the key and content
\* of the merged fields; the items of a watch are those of the merged field.
QueryBodyMerge ==
    \A i \in Slots :
        /\ (IsWrite(i) /\ reqs[i].body = "ok") =>
             LET m == [data_id |-> Merged(reqs[i].qry.data_id, reqs[i].form.data_id),
                       group   |-> Merged(reqs[i].qry.group, reqs[i].form.group),
                       tenant  |-> Merged(reqs[i].qry.tenant, reqs[i].form.tenant),
                       content |-> Merged(reqs[i].qry.content, reqs[i].form.content)]
             IN /\ reqs[i].sel = m
                /\ (reqs[i].key # NoKey <=> MergedValid(reqs[i].kind, m))
                /\ (reqs[i].key = NoKey => reqs[i].pc = "done" /\ reqs[i].resp.status = 500)
                /\ (reqs[i].key # NoKey =>
                        /\ reqs[i].key = MergedKey(m)
                        /\ (reqs[i].kind = "add" => reqs[i].content = Unwrap(m.content)))
        /\ (IsWatch(i) /\ reqs[i].body = "ok") =>
             LET m == Merged(reqs[i].qcfg, reqs[i].bcfg)
             IN /\ reqs[i].configs = m
                /\ (reqs[i].pc \in {"sending", "waiting"} => reqs[i].items = ToItems(m))
                /\ (ToItems(m) = <<>> => reqs[i].resp.status = 204)

\* C15 witness: a publish with dataId and content from the form and the
\* tenant from the query, the form's tenant being invalid, is acknowledged.
QueryBodyMergeWitness ==
    \E i \in Slots :
        /\ reqs[i].kind = "add" /\ reqs[i].resp = OkTrue
        /\ reqs[i].qry = [data_id |-> None, group |-> None, tenant |-> Some("public"),
                          content |-> None]
        /\ reqs[i].form = FullForm
        /\ reqs[i].key = ConfigKey("a", DefaultGroup, "") /\ reqs[i].content = "v1"

\* The fingerprints the watcher sent for the key k.
Supplied(w, k) ==
    LET its == DecodeListenerItems(UnwrapOr(reqs[w].configs, <<>>))
    IN {its[n].md5 : n \in {m \in 1..Len(its) : its[m].key = k}}

\* The step that resolves the watch w with a changed-key list.
ResolvesData(w) == chan[w].st = "open" /\ chan'[w].st = "sent" /\ chan'[w].isData

\* The key k of the watch w differs: a fingerprint sent for it is not the
\* live one.
DiffersNow(w, k) == Supplied(w, k) # {} /\ LiveMd5(store', k) \notin Supplied(w, k)

SoleSignalStep ==
    \A w \in Slots : ResolvesData(w) =>
        \A k \in Range(chan'[w].list) : DiffersNow(w, k)

SignalStep ==
    \A w \in Slots : ResolvesData(w) =>
        \A k \in Range(chan'[w].list) :
            /\ Supplied(w, k) # {}
            /\ \/ DiffersNow(w, k)
               \/ chan'[w].by = "mutation" /\ busy # <<>> /\ k = Head(busy).key

DifferingKeys(w) ==
    LET its == DecodeListenerItems(UnwrapOr(reqs[w].configs, <<>>))
        differing == {n \in 1..Len(its) : its[n].md5 # LiveMd5(store, its[n].key)}
        F[n \in 0..Len(its)] ==
            IF n = 0 THEN <<>>
            ELSE IF n \in differing THEN Append(F[n - 1], its[n].key) ELSE F[n - 1]
    IN F[Len(its)]

\* The step in which the LISTENER command of w reaches the registry.
Registers(w) ==
    IsWatch(w) /\ reqs[w].pc = "sending" /\ reqs'[w].pc = "waiting"
        /\ chan'[w].st # "closed"

ImmediateStep ==
    \A w \in Slots :
        /\ (Registers(w) /\ DifferingKeys(w) # <<>>) =>
              /\ chan'[w].st = "sent" /\ chan'[w].isData
              /\ chan'[w].list = DifferingKeys(w)
              /\ chan'[w].by = "register"
              /\ w \notin pending /\ w \notin pending'
        /\ (chan[w].st = "sent" /\ chan[w].by = "register") =>
              /\ w \notin pending'
              /\ \/ chan'[w] = [chan[w] EXCEPT !.waits = chan'[w].waits]
                 \/ chan'[w] = NoChan

\* C17 (immediate resolution): a watch that reaches the registry with an
\* item whose fingerprint is not the live one is resolved in that step with
\* exactly the keys that differ, in order, and is not put in the pending
\* table; afterwards no write and no deadline changes what it was resolved
\* with, and its answer is that list.
ImmediateResolution ==
    /\ [][ImmediateStep]_vars
    /\ [](\A w \in Slots :
            (IsWatch(w) /\ chan[w].st = "sent" /\ chan[w].by = "register") =>
                /\ w \notin pending /\ chan[w].n = 1
                /\ (reqs[w].pc = "done" /\ chan[w].isData =>
                        reqs[w].resp = Response(200, Blob(chan[w].list, "%02", "%01"), "")))

\* C17 witness: of two items one differed at registration; the watch holds
\* that key alone while the write of its other key is being notified.
ImmediateResolutionWitness ==
    \E w \in Slots :
        /\ IsWatch(w) /\ chan[w].st = "sent" /\ chan[w].by = "register"
        /\ Len(reqs[w].items) = 2
        /\ chan[w].list = <<ConfigKey("b", DefaultGroup, "t1")>>
        /\ busy # <<>> /\ Head(busy).key = reqs[w].items[1].key
        /\ w \notin pending

\* A check at registration that finds no difference, the deadline being
\* elapsed, completes the channel with no-change.
NoChangeStep ==
    \A w \in Slots :
        (Registers(w) /\ DifferingKeys(w) = <<>> /\ reqs[w].time_out <= now) =>
            chan'[w].st = "sent" /\ ~chan'[w].isData /\ chan'[w].list = <<>>

\* C18 (never an empty changed-key result): a completion is a changed-key
\* list with at least one key (by a write, or by a difference found at
\* registration) or the no-change marker (by the deadline, or by a check at
\* registration that finds nothing); the body answered is empty exactly for
\* no-change and is otherwise a blob of at least one key ended by a newline.
NeverEmptyData ==
    /\ [](\A w \in Slots : chan[w].st = "sent" =>
            /\ (chan[w].isData <=> chan[w].list # <<>>)
            /\ (chan[w].by = "mutation" => chan[w].isData)
            /\ (chan[w].by = "deadline" => ~chan[w].isData)
            /\ (IsWatch(w) /\ reqs[w].pc = "done" =>
                    LET body == reqs[w].resp.body
                    IN /\ reqs[w].resp.status = 200
                       /\ (body = <<>> <=> ~chan[w].isData)
                       /\ (chan[w].isData =>
                              /\ Len(body) >= 4 /\ body[Len(body)] = "\n"
                              /\ \A n \in 1..(Len(body) - 1) : body[n] # "\n")))
    /\ [][NoChangeStep]_vars

\* C18 witness: a watch with no timeout header whose key is as it knows it
\* was answered with the empty body.
NeverEmptyDataWitness ==
    \E w \in Slots :
        /\ IsWatch(w) /\ reqs[w].pc = "done" /\ reqs[w].hdr.kind = "absent"
        /\ chan[w].st = "sent" /\ chan[w].by = "register" /\ ~chan[w].isData
        /\ reqs[w].items # <<>>
        /\ reqs[w].resp = Response(200, <<>>, "")

\* The LISTENER command of w was not delivered: its channel is closed with
\* no value.
Undelivered(w) ==
    IsWatch(w) /\ Built(reqs[w]) /\ reqs[w].pc # "sending" /\ chan[w].st = "closed"

\* C19 (a listener fails on its own), as claimed: a listener whose command
\* is not delivered, its channel closed with no value, does not abort: it is
\* waiting to answer or has answered with a failure.
ListenerFailsAlone ==
    \A w \in Slots : Undelivered(w) =>
        /\ reqs[w].pc \in {"waiting", "done"}
        /\ (reqs[w].pc = "done" => reqs[w].resp.status >= 500)

====
